---- MODULE Spec2Model ----
(***************************************************************************)
(* exact-key-map: the runtime containers ExactKeyMap and ConstExactKeyMap  *)
(* (both extend the native Map), their construction from nested entry      *)
(* arrays, and the set / get / delete / clear operations a client can call *)
(* on a container or on a nested container reached through get.            *)
(*                                                                         *)
(* JavaScript values are records of one shape:                             *)
(*   t  the kind ("primitive", "undefined", "boolean", "Array", "entry",   *)
(*      or the class of a map object: "Map", "ExactKeyMap",                *)
(*      "ConstExactKeyMap")                                                *)
(*   p  the payload of a primitive                                         *)
(*   e  the elements of an Array, the [key, value] of a map entry, or the  *)
(*      ordered entry list of a map object or of a plain object            *)
(*   constructing   the _constructing field of a ConstExactKeyMap          *)
(* Keys are PropertyKey primitives (README.md:521, part_015:8-11).         *)
(*                                                                         *)
(* Specifications:                                                         *)
(*   Spec       containers built by fromEntries, then set/get/delete/clear *)
(*   SpecHeap   the Es variant with object identity: constructor, asMap    *)
(*   SpecEntry  every construction entry point in every calling form       *)
(*   SpecArgs   toEntriesArray / fromEntries on pairs with array keys      *)
(*   SpecLoose  maps obtained from LooseExactKeyMap                        *)
(*   SpecTypes  the types ValueOfKey, ExtractExactEntry, NormalizeValue    *)
(*   SpecPolicy the widening and the preserving value policy of get        *)
(*   SpecShape  the predicates isTuple, isArrayOfTuples, isEntry, isEntries*)
(*   SpecObject objectToExactKeyMap on plain objects                       *)
(*   SpecTwin   two containers constructed from the same arrays            *)
(*   SpecExport a container and the Map its asMap returned                 *)
(*   SpecStack  asMap on containers that set made hold containers          *)
(***************************************************************************)
EXTENDS Integers, Sequences, FiniteSets, TLC

VARIABLES m, last

vars == <<m, last>>

\* ------------------------------------------------------------------ bounds
\* Total number of [key, value] pairs, at all nesting levels, of the entries
\* handed to a construction.
MaxPairs == 2

\* Number of get calls that lead from the container a client holds to the
\* nested container it calls an operation on.
MaxGets == 1

\* ------------------------------------------------------------------ values
undefined == [t |-> "undefined", p |-> "", e |-> <<>>, constructing |-> FALSE]

Prim(s) == [t |-> "primitive", p |-> s, e |-> <<>>, constructing |-> FALSE]

Bool(b) ==
  [t |-> "boolean", p |-> IF b THEN "true" ELSE "false", e |-> <<>>,
   constructing |-> FALSE]

Arr(s) == [t |-> "Array", p |-> "", e |-> s, constructing |-> FALSE]

Entry(k, v) == [t |-> "entry", p |-> "", e |-> <<k, v>>, constructing |-> FALSE]

\* A freshly allocated, empty map object of class cls.  During super() the
\* _constructing field of a ConstExactKeyMap is not yet initialised (falsy).
NewMap(cls) == [t |-> cls, p |-> "", e |-> <<>>, constructing |-> FALSE]

IsMap(v) == v.t \in {"Map", "ExactKeyMap", "ConstExactKeyMap"}

\* The outcome of a call: the receiver after the call, the value returned,
\* and the message of the Error thrown ("" when the call returns).
Res(obj, ret, err) == [obj |-> obj, ret |-> ret, err |-> err]

SetErr == "ConstExactKeyMap is read-only, set operation is not allowed"

DeleteErr == "ConstExactKeyMap is read-only, delete operation is not allowed"

\* ------------------------------------------------------- shape predicates
\* Variant: an array of two or more elements is a tuple.
isTuple_AtLeastTwo(value) == value.t = "Array" /\ Len(value.e) >= 2

isTuple(value) == value.t = "Array" /\ Len(value.e) = 2

\* Variant: the empty array is no array of tuples.
isArrayOfTuples_NonEmpty(value) ==
  value.t = "Array" /\ Len(value.e) > 0 /\ \A i \in 1..Len(value.e) : isTuple(value.e[i])

isArrayOfTuples(value) ==
  value.t = "Array" /\ \A i \in 1..Len(value.e) : isTuple(value.e[i])

isEntriesArray(first) ==
  first.t = "Array" /\ (Len(first.e) = 0 \/ first.e[1].t = "Array")

\* The canonical entry sequence of a call (first, ...rest).
toEntriesArray(first, rest) ==
  IF isEntriesArray(first) THEN first.e ELSE <<first>> \o rest

\* Array destructuring ([key, value]) needs an iterable: an array or a string.
\* Of undefined it throws a TypeError.
Iterable(x) == x.t \in {"Array", "primitive"}

NotIterableErr == "TypeError: undefined is not iterable"

\* Array destructuring ([key, value]) of one element of the entry sequence:
\* the i-th item the element yields when iterated, undefined past its end.
\* A one-character string yields itself.
At(x, i) ==
  IF x.t = "Array"
  THEN IF i <= Len(x.e) THEN x.e[i] ELSE undefined
  ELSE IF x.t = "primitive" /\ i = 1 THEN x ELSE undefined

\* ------------------------------------------------------------- native Map
Map_has(obj, key) == \E i \in 1..Len(obj.e) : obj.e[i].e[1] = key

IndexOf(obj, key) == CHOOSE i \in 1..Len(obj.e) : obj.e[i].e[1] = key

Map_size(obj) == Len(obj.e)

Map_get(obj, key) ==
  IF Map_has(obj, key) THEN obj.e[IndexOf(obj, key)].e[2] ELSE undefined

\* Variant: set of a stored key moves the key behind all others.
Map_set_MoveToEnd(obj, key, value) ==
  LET kept == SelectSeq(obj.e, LAMBDA x : x.e[1] # key)
      after == [obj EXCEPT !.e = Append(kept, Entry(key, value))]
  IN Res(after, after, "")

\* Variant: set drops every other key of the map.
Map_set_DropOthers(obj, key, value) ==
  LET after == [obj EXCEPT !.e = <<Entry(key, value)>>]
  IN Res(after, after, "")

\* Map.prototype.set: an existing key keeps its position; returns the map.
Map_set(obj, key, value) ==
  LET after ==
        IF Map_has(obj, key)
        THEN [obj EXCEPT !.e[IndexOf(obj, key)] = Entry(key, value)]
        ELSE [obj EXCEPT !.e = Append(@, Entry(key, value))]
  IN Res(after, after, "")

Map_delete(obj, key) ==
  IF Map_has(obj, key)
  THEN LET i == IndexOf(obj, key)
           after == [obj EXCEPT !.e = SubSeq(@, 1, i - 1) \o SubSeq(@, i + 1, Len(@))]
       IN Res(after, Bool(TRUE), "")
  ELSE Res(obj, Bool(FALSE), "")

Map_clear(obj) == Res([obj EXCEPT !.e = <<>>], undefined, "")

\* ------------------------------------------------------------ ExactKeyMap
\* Variant: set lifts an entry array into a nested ExactKeyMap before storing.
ExactKeyMap_set_Lifting(obj, key, value) ==
  IF isArrayOfTuples(value)
  THEN LET lifted ==
             [NewMap("ExactKeyMap") EXCEPT
                !.e = [i \in 1..Len(value.e) |-> Entry(value.e[i].e[1], value.e[i].e[2])]]
           r == Map_set(obj, key, lifted)
       IN Res(r.obj, r.obj, "")
  ELSE Map_set(obj, key, value)

\* Variant: set stores a value only under a key that is already present.
ExactKeyMap_set_StoredOnly(obj, key, value) ==
  IF Map_has(obj, key) THEN Map_set(obj, key, value) ELSE Res(obj, obj, "")

\* Variant: set leaves the value of a key that is already present.
ExactKeyMap_set_KeepExisting(obj, key, value) ==
  IF Map_has(obj, key) THEN Res(obj, obj, "") ELSE Map_set(obj, key, value)

ExactKeyMap_set(obj, key, value) == Map_set(obj, key, value)

\* Variant: get of a key that is not stored answers with the key itself.
ExactKeyMap_get_EchoWhenAbsent(obj, key) ==
  IF Map_has(obj, key) THEN Map_get(obj, key) ELSE key

ExactKeyMap_get(obj, key) == Map_get(obj, key)

\* Variant: delete reports true whether or not the key was stored.
ExactKeyMap_delete_AlwaysTrue(obj, key) ==
  Res(Map_delete(obj, key).obj, Bool(TRUE), "")

ExactKeyMap_delete(obj, key) == Map_delete(obj, key)

\* ------------------------------------------------------- ConstExactKeyMap
\* Variant: set is not overridden.
ConstExactKeyMap_set_Unguarded(obj, key, value) == ExactKeyMap_set(obj, key, value)

ConstExactKeyMap_set(obj, key, value) ==
  IF obj.constructing
  THEN ExactKeyMap_set(obj, key, value)
  ELSE Res(obj, undefined, SetErr)

\* Variant: delete on a sealed map reports false instead of throwing.
ConstExactKeyMap_delete_ReturnsFalse(obj, key) ==
  IF obj.constructing
  THEN ExactKeyMap_delete(obj, key)
  ELSE Res(obj, Bool(FALSE), "")

ConstExactKeyMap_delete(obj, key) ==
  IF obj.constructing
  THEN ExactKeyMap_delete(obj, key)
  ELSE Res(obj, undefined, DeleteErr)

\* ------------------------------------------- method calls on a map object
\* obj.set(key, value), obj.delete(key), obj.get(key), obj.clear(): the
\* method of the object's own class, inherited where not overridden.
set(obj, key, value) ==
  CASE obj.t = "ConstExactKeyMap" -> ConstExactKeyMap_set(obj, key, value)
    [] obj.t = "ExactKeyMap" -> ExactKeyMap_set(obj, key, value)
    [] OTHER -> Map_set(obj, key, value)

delete(obj, key) ==
  CASE obj.t = "ConstExactKeyMap" -> ConstExactKeyMap_delete(obj, key)
    [] obj.t = "ExactKeyMap" -> ExactKeyMap_delete(obj, key)
    [] OTHER -> Map_delete(obj, key)

get(obj, key) ==
  IF obj.t \in {"ExactKeyMap", "ConstExactKeyMap"}
  THEN ExactKeyMap_get(obj, key)
  ELSE Map_get(obj, key)

clear(obj) == Map_clear(obj)

\* ----------------------------------------------------------- construction
\* new Map(iterable): every [key, value] of the iterable is added, in order,
\* by calling the set method of the object under construction.
\* Variant: a key that is already in the map keeps its first value.
RECURSIVE Map_constructor_KeepFirst(_, _)
Map_constructor_KeepFirst(obj, items) ==
  IF items = <<>>
  THEN Res(obj, obj, "")
  ELSE IF Map_has(obj, Head(items).e[1])
       THEN Map_constructor_KeepFirst(obj, Tail(items))
       ELSE LET r == set(obj, Head(items).e[1], Head(items).e[2])
            IN IF r.err # "" THEN r ELSE Map_constructor_KeepFirst(r.obj, Tail(items))

RECURSIVE Map_constructor(_, _)
Map_constructor(obj, items) ==
  IF items = <<>>
  THEN Res(obj, obj, "")
  ELSE LET r == set(obj, Head(items).e[1], Head(items).e[2])
       IN IF r.err # "" THEN r ELSE Map_constructor(r.obj, Tail(items))

Least(S) == CHOOSE i \in S : \A j \in S : i <= j

\* Variant: entry-array values are stored as they are, never lifted.
ExactKeyMap_constructor_Raw(cls, first, rest) ==
  LET arr == toEntriesArray(first, rest)
  IN Map_constructor(NewMap(cls),
                     [i \in 1..Len(arr) |-> Entry(At(arr[i], 1), At(arr[i], 2))])

\* Variant: an entry-array value is lifted, the entry arrays inside it are not.
ExactKeyMap_constructor_Shallow(cls, first, rest) ==
  LET arr == toEntriesArray(first, rest)
      processed ==
        [i \in 1..Len(arr) |->
           Entry(At(arr[i], 1),
                 IF isArrayOfTuples(At(arr[i], 2))
                 THEN ExactKeyMap_constructor_Raw("ExactKeyMap", At(arr[i], 2), <<>>).obj
                 ELSE At(arr[i], 2))]
  IN Map_constructor(NewMap(cls), processed)

\* new ExactKeyMap(first, ...rest), run for an object of class cls.
RECURSIVE ExactKeyMap_constructor(_, _, _)
ExactKeyMap_constructor(cls, first, rest) ==
  LET arr == toEntriesArray(first, rest)
      nested(i) == isArrayOfTuples(At(arr[i], 2))
      sub(i) == ExactKeyMap_constructor("ExactKeyMap", At(arr[i], 2), <<>>)
      failure(i) ==
        IF ~Iterable(arr[i]) THEN NotIterableErr
        ELSE IF nested(i) THEN sub(i).err ELSE ""
      thrown == {i \in 1..Len(arr) : failure(i) # ""}
      processed ==
        [i \in 1..Len(arr) |->
           Entry(At(arr[i], 1), IF nested(i) THEN sub(i).obj ELSE At(arr[i], 2))]
  IN IF thrown # {}
     THEN Res(undefined, undefined, failure(Least(thrown)))
     ELSE Map_constructor(NewMap(cls), processed)

ExactKeyMap_fromEntries(first, rest) ==
  ExactKeyMap_constructor("ExactKeyMap", first, rest)

\* for (const [k, v] of processed) super.set(k, v)
RECURSIVE SuperSetAll(_, _)
SuperSetAll(obj, items) ==
  IF items = <<>>
  THEN Res(obj, obj, "")
  ELSE LET r == ExactKeyMap_set(obj, Head(items).e[1], Head(items).e[2])
       IN IF r.err # "" THEN r ELSE SuperSetAll(r.obj, Tail(items))

\* Variant: the entries are handed to super(), which adds them through the
\* overridden set before _constructing is set.
ConstExactKeyMap_constructor_ViaSuper(first, rest) ==
  LET base == ExactKeyMap_constructor("ConstExactKeyMap", first, rest)
  IN IF base.err # "" THEN Res(undefined, undefined, base.err) ELSE base

\* Variant: nested entry arrays become mutable ExactKeyMaps.
ConstExactKeyMap_constructor_MutableNested(first, rest) ==
  LET arr == toEntriesArray(first, rest)
      processed ==
        [i \in 1..Len(arr) |->
           Entry(At(arr[i], 1),
                 IF isArrayOfTuples(At(arr[i], 2))
                 THEN ExactKeyMap_constructor("ExactKeyMap", At(arr[i], 2), <<>>).obj
                 ELSE At(arr[i], 2))]
      populated == SuperSetAll(NewMap("ConstExactKeyMap"), processed)
  IN Res(populated.obj, populated.obj, "")

\* new ConstExactKeyMap(first, ...rest)
RECURSIVE ConstExactKeyMap_constructor(_, _)
ConstExactKeyMap_constructor(first, rest) ==
  LET base == ExactKeyMap_constructor("ConstExactKeyMap", Arr(<<>>), <<>>)
      initialised == [base.obj EXCEPT !.constructing = FALSE]
      opened == [initialised EXCEPT !.constructing = TRUE]
      arr == toEntriesArray(first, rest)
      nested(i) == isArrayOfTuples(At(arr[i], 2))
      sub(i) == ConstExactKeyMap_constructor(At(arr[i], 2), <<>>)
      failure(i) ==
        IF ~Iterable(arr[i]) THEN NotIterableErr
        ELSE IF nested(i) THEN sub(i).err ELSE ""
      thrown == {i \in 1..Len(arr) : failure(i) # ""}
      processed ==
        [i \in 1..Len(arr) |->
           Entry(At(arr[i], 1), IF nested(i) THEN sub(i).obj ELSE At(arr[i], 2))]
      populated == SuperSetAll(opened, processed)
      sealed == [populated.obj EXCEPT !.constructing = FALSE]
  IN IF base.err # ""
     THEN base
     ELSE IF thrown # {}
     THEN Res(undefined, undefined, failure(Least(thrown)))
     ELSE IF populated.err # ""
     THEN populated
     ELSE Res(sealed, sealed, "")

ConstExactKeyMap_fromEntries(first, rest) ==
  ConstExactKeyMap_constructor(first, rest)

\* ------------------------------------------------- references through get
\* The object reached from obj by obj.get(path[1]).get(path[2])...
RECURSIVE Resolve(_, _)
Resolve(obj, path) ==
  IF path = <<>>
  THEN obj
  ELSE IF IsMap(obj)
  THEN Resolve(get(obj, Head(path)), Tail(path))
  ELSE undefined

\* obj after the object it references along path has become new: get hands
\* out the stored object itself, so a change to it is seen through obj.
RECURSIVE Replace(_, _, _)
Replace(obj, path, new) ==
  IF path = <<>>
  THEN new
  ELSE [obj EXCEPT !.e[IndexOf(obj, Head(path))] =
          Entry(Head(path), Replace(get(obj, Head(path)), Tail(path), new))]

\* ------------------------------------------------------------------ inputs
Keys == {Prim("a"), Prim("b")}

\* Values that are not entry arrays with pairs in them: a primitive, the
\* empty array, an array of two primitives.
Leaves == {Prim("a"), Arr(<<>>), Arr(<<Prim("a"), Prim("b")>>)}

\* Values handed to set: a primitive and a raw entry array [['a', 'b']].
SetValues == {Prim("b"), Arr(<<Arr(<<Prim("a"), Prim("b")>>)>>)}

\* Entry sequences with exactly n pairs in all, nested ones included.
RECURSIVE EntriesOfSize(_), ValuesOfSize(_)
EntriesOfSize(n) ==
  IF n = 0
  THEN {<<>>}
  ELSE UNION {{<<Arr(<<k, v>>)>> \o rest :
                 k \in Keys, v \in ValuesOfSize(j), rest \in EntriesOfSize(n - 1 - j)} :
              j \in 0..(n - 1)}

ValuesOfSize(j) == IF j = 0 THEN Leaves ELSE {Arr(es) : es \in EntriesOfSize(j)}

Inputs == UNION {EntriesOfSize(n) : n \in 0..MaxPairs}

Paths == UNION {[1..n -> Keys] : n \in 0..MaxGets}

Call(op, form, path, key, val, r) ==
  [op |-> op, form |-> form, path |-> path, key |-> key, val |-> val,
   ret |-> r.ret, err |-> r.err]

\* ----------------------------------------------------------------- actions
\* The container a client holds after one construction call, and the call.
Constructed(op, form, entries, r) ==
  /\ m = IF r.err = "" THEN r.obj ELSE undefined
  /\ last = Call(op, form, <<>>, undefined, Arr(entries), r)

\* m = ExactKeyMap.fromEntries(entries) or ExactKeyMap.fromEntries(...entries)
FromEntries(form, entries) ==
  Constructed("ExactKeyMap.fromEntries", form, entries,
              IF form = "list"
              THEN ExactKeyMap_fromEntries(Arr(entries), <<>>)
              ELSE ExactKeyMap_fromEntries(Head(entries), Tail(entries)))

\* m = ConstExactKeyMap.fromEntries(entries) or (...entries)
ConstFromEntries(form, entries) ==
  Constructed("ConstExactKeyMap.fromEntries", form, entries,
              IF form = "list"
              THEN ConstExactKeyMap_fromEntries(Arr(entries), <<>>)
              ELSE ConstExactKeyMap_fromEntries(Head(entries), Tail(entries)))

Init ==
  \E form \in {"list", "variadic"}, entries \in Inputs :
     /\ form = "variadic" => entries # <<>>
     /\ \/ FromEntries(form, entries)
        \/ ConstFromEntries(form, entries)

\* m.get(path[1])....set(key, value)
Set(path, key, value) ==
  LET r == set(Resolve(m, path), key, value)
  IN /\ IsMap(Resolve(m, path))
     /\ m' = Replace(m, path, r.obj)
     /\ last' = Call("set", "", path, key, value, r)

\* m.get(path[1])....delete(key)
Delete(path, key) ==
  LET r == delete(Resolve(m, path), key)
  IN /\ IsMap(Resolve(m, path))
     /\ m' = Replace(m, path, r.obj)
     /\ last' = Call("delete", "", path, key, undefined, r)

\* m.get(key)
Get(key) ==
  /\ IsMap(m)
  /\ m' = m
  /\ last' = Call("get", "", <<>>, key, undefined, Res(m, get(m, key), ""))

\* m.get(path[1])....clear()
Clear(path) ==
  LET r == clear(Resolve(m, path))
  IN /\ IsMap(Resolve(m, path))
     /\ m' = Replace(m, path, r.obj)
     /\ last' = Call("clear", "", path, undefined, undefined, r)

Next ==
  \/ \E path \in Paths, key \in Keys, value \in SetValues : Set(path, key, value)
  \/ \E path \in Paths, key \in Keys : Delete(path, key)
  \/ \E key \in Keys : Get(key)
  \/ \E path \in Paths : Clear(path)

Spec == Init /\ [][Next]_vars

\* ================================================== objects with identity
\* The Es variant of ExactKeyMap (constructor(entries?), asMap) run on a heap:
\* a sequence of map objects, an object's address being its index.  A stored
\* value is a primitive, an array, or Ref(i), the reference to object i.  In
\* SpecHeap m is [heap, calls] and last.path holds the receiver of the call.

\* Number of set / delete / asMap calls made after the construction.
MaxCalls == 2

Ref(i) == [t |-> "ref", p |-> ToString(i), e |-> <<>>, constructing |-> FALSE]

Addr(heap, ref) == CHOOSE i \in 1..Len(heap) : Ref(i) = ref

IsRef(heap, v) == v.t = "ref" /\ \E i \in 1..Len(heap) : Ref(i) = v

isEntry(value) == value.t = "Array" /\ Len(value.e) = 2

isEntries(value) ==
  value.t = "Array" /\ \A i \in 1..Len(value.e) : isEntry(value.e[i])

\* Variant: a container equal to one that exists is not allocated, the one
\* that exists is taken in its place.
RECURSIVE Es_ExactKeyMap_constructor_Reusing(_, _), Es_processed_Reusing(_, _)
Es_ExactKeyMap_constructor_Reusing(heap, entries) ==
  LET normalized == IF entries = undefined THEN Arr(<<>>) ELSE entries
      p == Es_processed_Reusing(heap, normalized.e)
      r == Map_constructor(NewMap("ExactKeyMap"), p.e)
      same == {j \in 1..Len(p.heap) : p.heap[j] = r.obj}
  IN IF same # {}
     THEN [heap |-> p.heap, ret |-> Ref(CHOOSE j \in same : TRUE), err |-> r.err]
     ELSE [heap |-> Append(p.heap, r.obj), ret |-> Ref(Len(p.heap) + 1), err |-> r.err]

Es_processed_Reusing(heap, items) ==
  IF items = <<>>
  THEN [heap |-> heap, e |-> <<>>]
  ELSE LET key == At(Head(items), 1)
           value == At(Head(items), 2)
           sub == IF isEntries(value)
                  THEN Es_ExactKeyMap_constructor_Reusing(heap, value)
                  ELSE [heap |-> heap, ret |-> value, err |-> ""]
           rest == Es_processed_Reusing(sub.heap, Tail(items))
       IN [heap |-> rest.heap, e |-> <<Entry(key, sub.ret)>> \o rest.e]

\* new ExactKeyMap(entries): the nested maps are built while the entries are
\* mapped, the object itself is allocated by super(processed).
RECURSIVE Es_ExactKeyMap_constructor(_, _), Es_processed(_, _)
Es_ExactKeyMap_constructor(heap, entries) ==
  LET normalized == IF entries = undefined THEN Arr(<<>>) ELSE entries
      p == Es_processed(heap, normalized.e)
      r == Map_constructor(NewMap("ExactKeyMap"), p.e)
  IN [heap |-> Append(p.heap, r.obj), ret |-> Ref(Len(p.heap) + 1), err |-> r.err]

Es_processed(heap, items) ==
  IF items = <<>>
  THEN [heap |-> heap, e |-> <<>>]
  ELSE LET key == At(Head(items), 1)
           value == At(Head(items), 2)
           sub == IF isEntries(value)
                  THEN Es_ExactKeyMap_constructor(heap, value)
                  ELSE [heap |-> heap, ret |-> value, err |-> ""]
           rest == Es_processed(sub.heap, Tail(items))
       IN [heap |-> rest.heap, e |-> <<Entry(key, sub.ret)>> \o rest.e]

\* value && typeof value === 'object' && 'asMap' in value
\*   && typeof value.asMap === 'function'
HasAsMap(heap, value) ==
  IsRef(heap, value) /\ heap[Addr(heap, value)].t \in {"ExactKeyMap", "ConstExactKeyMap"}

\* Variant: asMap hands out the container itself.
asMap_ReturnsThis(heap, id) == [heap |-> heap, ret |-> Ref(id)]

\* Variant: asMap copies the entries of the container, nested ones as they are.
asMap_Shallow(heap, id) ==
  [heap |-> Append(heap, Map_constructor(NewMap("Map"), heap[id].e).obj),
   ret |-> Ref(Len(heap) + 1)]

\* heap[id].asMap(): const map = new Map(); this.forEach(...); return map
RECURSIVE asMap(_, _), asMap_forEach(_, _, _)
asMap(heap, id) ==
  LET map == Len(heap) + 1
  IN [heap |-> asMap_forEach(Append(heap, NewMap("Map")), map, heap[id].e),
      ret |-> Ref(map)]

asMap_forEach(heap, map, items) ==
  IF items = <<>>
  THEN heap
  ELSE LET key == Head(items).e[1]
           value == Head(items).e[2]
           sub == IF HasAsMap(heap, value)
                  THEN asMap(heap, Addr(heap, value))
                  ELSE [heap |-> heap, ret |-> value]
       IN asMap_forEach([sub.heap EXCEPT ![map] = Map_set(@, key, sub.ret).obj],
                        map, Tail(items))

\* Values handed to set on a heap object.
HeapSetValues == {Prim("b")}

\* m = new ExactKeyMap(entries)
HeapInit ==
  \E entries \in Inputs :
    LET r == Es_ExactKeyMap_constructor(<<>>, Arr(entries))
    IN /\ m = [heap |-> r.heap, calls |-> 0]
       /\ last = Call("new ExactKeyMap", "list", <<>>, undefined, Arr(entries),
                      Res(undefined, r.ret, r.err))

\* o.set(key, value) for the object o at address id; set returns o itself.
HeapSet(id, key, value) ==
  LET r == set(m.heap[id], key, value)
  IN /\ m.calls < MaxCalls
     /\ m' = [heap |-> [m.heap EXCEPT ![id] = r.obj], calls |-> m.calls + 1]
     /\ last' = Call("set", "", <<Ref(id)>>, key, value,
                     Res(r.obj, IF r.err = "" THEN Ref(id) ELSE undefined, r.err))

\* o.delete(key)
HeapDelete(id, key) ==
  LET r == delete(m.heap[id], key)
  IN /\ m.calls < MaxCalls
     /\ m' = [heap |-> [m.heap EXCEPT ![id] = r.obj], calls |-> m.calls + 1]
     /\ last' = Call("delete", "", <<Ref(id)>>, key, undefined, r)

\* o.asMap()
HeapAsMap(id) ==
  LET r == asMap(m.heap, id)
  IN /\ m.calls < MaxCalls
     /\ m.heap[id].t = "ExactKeyMap"
     /\ m' = [heap |-> r.heap, calls |-> m.calls + 1]
     /\ last' = Call("asMap", "", <<Ref(id)>>, undefined, undefined,
                     Res(undefined, r.ret, ""))

HeapNext ==
  \/ \E id \in 1..Len(m.heap), key \in Keys, value \in HeapSetValues :
       HeapSet(id, key, value)
  \/ \E id \in 1..Len(m.heap), key \in Keys : HeapDelete(id, key)
  \/ \E id \in 1..Len(m.heap) : HeapAsMap(id)

SpecHeap == HeapInit /\ [][HeapNext]_vars

\* ============================================ construction entry points
\* ExactKeyMap.withTypes(first?, ...rest)
ExactKeyMap_withTypes(first, rest) ==
  LET arr == IF first = undefined THEN <<>> ELSE toEntriesArray(first, rest)
  IN ExactKeyMap_constructor("ExactKeyMap", Arr(arr), <<>>)

\* LooseExactKeyMap.fromEntries(first, ...rest): new ExactKeyMap(first, ...rest)
LooseExactKeyMap_fromEntries(first, rest) ==
  ExactKeyMap_constructor("ExactKeyMap", first, rest)

\* LooseExactKeyMap.withTypes(): new ExactKeyMap([])
LooseExactKeyMap_withTypes == ExactKeyMap_constructor("ExactKeyMap", Arr(<<>>), <<>>)

\* The object a reference leads to, with the objects it holds in their place.
RECURSIVE Unfold(_, _)
Unfold(heap, v) ==
  IF IsRef(heap, v)
  THEN LET obj == heap[Addr(heap, v)]
       IN [obj EXCEPT !.e = [i \in 1..Len(obj.e) |->
                               Entry(obj.e[i].e[1], Unfold(heap, obj.e[i].e[2]))]]
  ELSE v

\* new ExactKeyMap(entries?) of the Es variant.
Es_new(entries) ==
  LET r == Es_ExactKeyMap_constructor(<<>>, entries)
  IN Res(Unfold(r.heap, r.ret), Unfold(r.heap, r.ret), r.err)

EntryPoints ==
  {"new ExactKeyMap", "ExactKeyMap.withTypes", "ExactKeyMap.fromEntries",
   "LooseExactKeyMap.withTypes", "LooseExactKeyMap.fromEntries",
   "ConstExactKeyMap.fromEntries"}

\* The ways an entry point is called: with no argument, with one list of
\* pairs, with the pairs as separate arguments.
Forms(op) ==
  CASE op = "new ExactKeyMap" -> {"none", "list"}
    [] op = "LooseExactKeyMap.withTypes" -> {"none"}
    [] OTHER -> {"none", "list", "variadic"}

\* The call op(first, ...rest).
Construct(op, first, rest) ==
  CASE op = "new ExactKeyMap" -> Es_new(first)
    [] op = "ExactKeyMap.withTypes" -> ExactKeyMap_withTypes(first, rest)
    [] op = "ExactKeyMap.fromEntries" -> ExactKeyMap_fromEntries(first, rest)
    [] op = "LooseExactKeyMap.withTypes" -> LooseExactKeyMap_withTypes
    [] op = "LooseExactKeyMap.fromEntries" -> LooseExactKeyMap_fromEntries(first, rest)
    [] op = "ConstExactKeyMap.fromEntries" -> ConstExactKeyMap_fromEntries(first, rest)

\* The container a client holds after calling an entry point in one of its
\* forms; a missing argument is undefined.
EntryInit ==
  \E op \in EntryPoints, entries \in Inputs :
    \E form \in Forms(op) :
      LET first == CASE form = "none" -> undefined
                     [] form = "list" -> Arr(entries)
                     [] form = "variadic" -> Head(entries)
          rest == IF form = "variadic" THEN Tail(entries) ELSE <<>>
          r == Construct(op, first, rest)
      IN /\ form = "none" => entries = <<>>
         /\ form = "variadic" => entries # <<>>
         /\ m = IF r.err = "" THEN r.obj ELSE undefined
         /\ last = Call(op, form, <<>>, undefined, Arr(entries), r)

SpecEntry == EntryInit /\ [][Next]_vars

\* ============================================================== properties
\* The keys of an entry sequence are pairwise distinct.
DistinctKeys(entries) ==
  \A i, j \in 1..Len(entries) : i # j => entries[i].e[1] # entries[j].e[1]

\* Entry i is the last entry of the sequence with its key.
LastOfKey(entries, i) ==
  \A j \in (i + 1)..Len(entries) : entries[j].e[1] # entries[i].e[1]

KeySet(entries) == {entries[i].e[1] : i \in 1..Len(entries)}

\* The map holds, for entries with distinct keys, one key per pair, the very
\* value of a pair that is no entry array, and for an entry-array value an
\* ExactKeyMap that holds that array's pairs in the same way.
RECURSIVE RoundTrip(_, _)
RoundTrip(entries, map) ==
  DistinctKeys(entries) =>
    /\ map.t = "ExactKeyMap"
    /\ Map_size(map) = Len(entries)
    /\ \A i \in 1..Len(entries) :
         LET v == entries[i].e[2]
             g == get(map, entries[i].e[1])
         IN IF isArrayOfTuples(v) THEN RoundTrip(v.e, g) ELSE g = v

\* No value stored in the map, or in a map stored in it at any depth, is an
\* array all of whose elements are 2-element arrays.
RECURSIVE NoRawEntries(_)
NoRawEntries(map) ==
  \A i \in 1..Len(map.e) :
    LET v == map.e[i].e[2]
    IN /\ ~isArrayOfTuples(v)
       /\ IsMap(v) => NoRawEntries(v)

\* Every entry-array value of the input (the last one given for its key) is
\* held as an ExactKeyMap instance built from it, at every depth.
RECURSIVE Lifted(_, _)
Lifted(entries, map) ==
  \A i \in 1..Len(entries) :
    LET v == entries[i].e[2]
        g == get(map, entries[i].e[1])
    IN (LastOfKey(entries, i) /\ isArrayOfTuples(v)) =>
         /\ g.t \in {"ExactKeyMap", "ConstExactKeyMap"}
         /\ KeySet(g.e) = KeySet(v.e)
         /\ Lifted(v.e, g)

\* A read-only map built from the entries: sealed at every depth, one key per
\* distinct input key, each holding the last value given for it (lifted if
\* it is an entry array).
RECURSIVE ConstBuilt(_, _)
ConstBuilt(entries, map) ==
  /\ map.t = "ConstExactKeyMap"
  /\ map.constructing = FALSE
  /\ Map_size(map) = Cardinality(KeySet(entries))
  /\ \A i \in 1..Len(entries) :
       LET v == entries[i].e[2]
           g == get(map, entries[i].e[1])
       IN LastOfKey(entries, i) =>
            IF isArrayOfTuples(v) THEN ConstBuilt(v.e, g) ELSE g = v

\* The container the last call was made on, before and after the step.
Target == Resolve(m, last.path)

\* C1: an ExactKeyMap built by fromEntries from pairs with distinct keys has
\* one entry per pair; get returns a value that is no entry array unchanged,
\* and for an entry-array value an ExactKeyMap for which the same holds.
C1_RoundTrip ==
  last.op = "ExactKeyMap.fromEntries" =>
    last.err = "" /\ RoundTrip(last.val.e, m)

C1_Witness ==
  /\ last.op = "ExactKeyMap.fromEntries"
  /\ DistinctKeys(last.val.e)
  /\ \E k1, k2 \in Keys :
       /\ get(m, k1).t = "ExactKeyMap"
       /\ get(get(m, k1), k2) = Prim("a")

\* C2: right after construction every entry-array value of the input, at
\* every depth, has been replaced by a map instance built from it, and no
\* stored value at any depth is a raw entry array.
C2_NoRawAfterConstruction ==
  last.op \in {"ExactKeyMap.fromEntries", "ConstExactKeyMap.fromEntries"} =>
    /\ last.err = ""
    /\ NoRawEntries(m)
    /\ Lifted(last.val.e, m)

C2_Witness ==
  /\ last.op = "ExactKeyMap.fromEntries"
  /\ \E k1, k2 \in Keys :
       /\ get(m, k1).t = "ExactKeyMap"
       /\ get(get(m, k1), k2).t = "ExactKeyMap"

\* C3 as stated: after construction and any sequence of set and delete
\* calls, no key at any depth holds a raw entry array.
C3_NoRawEver == NoRawEntries(m)

\* C3 amended: a step keeps the containers free of raw entry arrays unless
\* it is a set whose value is a raw entry array; such a set stores the array
\* itself, unconverted.
C3_NoRawUnlessSet ==
  [][/\ (NoRawEntries(m) /\ ~(last'.op = "set" /\ isArrayOfTuples(last'.val)))
          => NoRawEntries(m')
     /\ (last'.op = "set" /\ last'.err = "" /\ isArrayOfTuples(last'.val))
          => get(Resolve(m', last'.path), last'.key) = last'.val]_vars

C3_Witness ==
  /\ last.op = "set"
  /\ last.err = ""
  /\ ~isArrayOfTuples(last.val)
  /\ NoRawEntries(m)
  /\ \E k \in Keys : IsMap(get(m, k))

\* C4: set on a constructed ConstExactKeyMap throws the read-only set error
\* for every key and value, and leaves the map as it was.
C4_SetThrows ==
  [][(last'.op = "set" /\ last'.path = <<>> /\ m.t = "ConstExactKeyMap")
       => (last'.err = SetErr /\ m' = m /\ m.constructing = FALSE)]_vars

C4_Witness ==
  /\ last.op = "set"
  /\ last.path = <<>>
  /\ m.t = "ConstExactKeyMap"
  /\ last.err = SetErr
  /\ ~Map_has(m, last.key)
  /\ Map_size(m) > 0

\* C5: delete on a constructed ConstExactKeyMap throws the read-only delete
\* error for every key, never returns, and leaves the map as it was.
C5_DeleteThrows ==
  [][(last'.op = "delete" /\ last'.path = <<>> /\ m.t = "ConstExactKeyMap")
       => (last'.err = DeleteErr /\ last'.ret = undefined /\ m' = m)]_vars

C5_Witness ==
  /\ last.op = "delete"
  /\ last.path = <<>>
  /\ m.t = "ConstExactKeyMap"
  /\ last.err = DeleteErr
  /\ Map_has(m, last.key)

\* C6: ConstExactKeyMap.fromEntries, in list or variadic form, does not
\* throw, stores the last value given for every distinct key, and leaves
\* _constructing false on the instance and on every nested instance.
C6_ConstConstruction ==
  last.op = "ConstExactKeyMap.fromEntries" =>
    last.err = "" /\ ConstBuilt(last.val.e, m)

C6_Witness ==
  /\ last.op = "ConstExactKeyMap.fromEntries"
  /\ last.form = "variadic"
  /\ last.err = ""
  /\ \E k \in Keys : get(m, k).t = "ConstExactKeyMap" /\ Map_size(get(m, k)) > 0

\* C7 as stated: no operation on a constructed ConstExactKeyMap changes its
\* keys or the value stored under any key.
C7_NeverModified == [][m.t = "ConstExactKeyMap" => m' = m]_vars

\* C8: in a ConstExactKeyMap every nested map is read-only: set and delete
\* on a map reached through get throw the read-only error and change nothing.
C8_NestedReadOnly ==
  [][(/\ last'.op \in {"set", "delete"}
      /\ last'.path # <<>>
      /\ m.t = "ConstExactKeyMap")
       => /\ last'.err = IF last'.op = "set" THEN SetErr ELSE DeleteErr
          /\ m' = m]_vars

C8_Witness ==
  /\ last.op = "set"
  /\ last.path # <<>>
  /\ m.t = "ConstExactKeyMap"
  /\ Target.t = "ConstExactKeyMap"
  /\ last.err = SetErr

\* C9: on a mutable ExactKeyMap, delete of an absent key returns false and
\* changes nothing; delete of a present key returns true, lowers size by one
\* and makes get return undefined; a second delete of the key returns false.
C9_Delete ==
  [][(last'.op = "delete" /\ Resolve(m, last'.path).t = "ExactKeyMap")
       => LET before == Resolve(m, last'.path)
              after == Resolve(m', last'.path)
          IN /\ last'.err = ""
             /\ IF Map_has(before, last'.key)
                THEN /\ last'.ret = Bool(TRUE)
                     /\ Map_size(after) = Map_size(before) - 1
                     /\ get(after, last'.key) = undefined
                ELSE /\ last'.ret = Bool(FALSE)
                     /\ m' = m
             /\ (/\ last.op = "delete"
                 /\ last.path = last'.path
                 /\ last.key = last'.key
                 /\ last.ret = Bool(TRUE))
                  => last'.ret = Bool(FALSE)]_vars

C9_Witness ==
  /\ last.op = "delete"
  /\ Target.t = "ExactKeyMap"
  /\ last.ret = Bool(TRUE)
  /\ Map_size(Target) > 0

\* C10: on a mutable ExactKeyMap, set returns the container it was called
\* on, and get of the key then returns exactly the value passed, whether or
\* not the key was present before.
C10_SetThenGet ==
  (last.op = "set" /\ Target.t = "ExactKeyMap") =>
    /\ last.err = ""
    /\ last.ret = Target
    /\ get(Target, last.key) = last.val

C10_Witness ==
  /\ last.op = "set"
  /\ Target.t = "ExactKeyMap"
  /\ isArrayOfTuples(last.val)
  /\ get(Target, last.key) = last.val
  /\ Map_size(Target) = 2

\* C11: get of a key that is not stored in an ExactKeyMap (never inserted,
\* or deleted) returns undefined without throwing, and no get changes the
\* container.
C11_GetAbsent ==
  [][(last'.op = "get" /\ m.t = "ExactKeyMap")
       => /\ last'.err = ""
          /\ m' = m
          /\ ~Map_has(m, last'.key) => last'.ret = undefined]_vars

C11_Witness ==
  /\ last.op = "get"
  /\ m.t = "ExactKeyMap"
  /\ ~Map_has(m, last.key)
  /\ Map_size(m) > 0
  /\ last.ret = undefined

\* ======================================================== calling styles
\* toEntriesArray and fromEntries applied to pairs p1..pn a client holds,
\* handed over as one list or as separate arguments.  A key is a primitive
\* or an array; the keys of one sequence are distinct.

\* Number of pairs handed to one call.
MaxArgs == 2

ArgKeys == Keys \cup {Arr(<<Prim("a")>>), Arr(<<Prim("a"), Prim("b")>>)}

ArgValues ==
  {Prim("a"), Arr(<<Prim("a"), Prim("b")>>), Arr(<<Arr(<<Prim("a"), Prim("b")>>)>>)}

ArgPairs == {Arr(<<k, v>>) : k \in ArgKeys, v \in ArgValues}

ArgInputs ==
  {pairs \in UNION {[1..n -> ArgPairs] : n \in 1..MaxArgs} : DistinctKeys(pairs)}

\* The arguments (first, ...rest) of a call with the pairs in the given form.
FirstArg(form, pairs) == IF form = "list" THEN Arr(pairs) ELSE Head(pairs)

RestArgs(form, pairs) == IF form = "list" THEN <<>> ELSE Tail(pairs)

ArgsInit ==
  \E pairs \in ArgInputs :
    /\ m = undefined
    /\ last = Call("pairs", "", <<>>, undefined, Arr(pairs),
                   Res(undefined, undefined, ""))

\* toEntriesArray(pairs) or toEntriesArray(...pairs)
ToEntriesArray(form) ==
  /\ last.op = "pairs"
  /\ m' = m
  /\ last' = Call("toEntriesArray", form, <<>>, undefined, last.val,
                  Res(undefined,
                      Arr(toEntriesArray(FirstArg(form, last.val.e),
                                         RestArgs(form, last.val.e))),
                      ""))

\* m = ExactKeyMap.fromEntries(pairs) or ExactKeyMap.fromEntries(...pairs)
ArgsFromEntries(form) ==
  LET r == ExactKeyMap_fromEntries(FirstArg(form, last.val.e),
                                   RestArgs(form, last.val.e))
  IN /\ last.op = "pairs"
     /\ m' = IF r.err = "" THEN r.obj ELSE undefined
     /\ last' = Call("ExactKeyMap.fromEntries", form, <<>>, undefined, last.val, r)

ArgsNext ==
  \/ \E form \in {"list", "variadic"} : ToEntriesArray(form)
  \/ \E form \in {"list", "variadic"} : ArgsFromEntries(form)

SpecArgs == ArgsInit /\ [][ArgsNext]_vars

\* ====================================================== LooseExactKeyMap
\* Maps obtained from LooseExactKeyMap.fromEntries<E> and .withTypes<E>, E
\* declaring the key 'a' at the root: 'b' is a key outside the declared set.
DeclaredKeys == {Prim("a")}

LooseInputs == {entries \in Inputs : KeySet(entries) \subseteq DeclaredKeys}

LooseInit ==
  \E form \in {"none", "list", "variadic"}, entries \in LooseInputs :
    LET op == IF form = "none"
              THEN "LooseExactKeyMap.withTypes"
              ELSE "LooseExactKeyMap.fromEntries"
        r == Construct(op, FirstArg(form, entries), RestArgs(form, entries))
    IN /\ form = "none" => entries = <<>>
       /\ form = "variadic" => entries # <<>>
       /\ m = IF r.err = "" THEN r.obj ELSE undefined
       /\ last = Call(op, form, <<>>, undefined, Arr(entries), r)

SpecLoose == LooseInit /\ [][Next]_vars

\* The object a call of SpecHeap was made on, and the object it returned.
Receiver == Addr(m.heap, last.path[1])

Returned == Addr(m.heap, last.ret)

\* Object res is the flattening of object src: a native Map with the keys of
\* src, holding for a nested container of src the flattening of that
\* container, and every other value of src itself.
RECURSIVE Flattened(_, _, _)
Flattened(heap, res, src) ==
  /\ heap[res].t = "Map"
  /\ Map_size(heap[res]) = Map_size(heap[src])
  /\ KeySet(heap[res].e) = KeySet(heap[src].e)
  /\ \A i \in 1..Len(heap[src].e) :
       LET v == heap[src].e[i].e[2]
           w == Map_get(heap[res], heap[src].e[i].e[1])
       IN IF IsRef(heap, v) /\ heap[Addr(heap, v)].t = "ExactKeyMap"
          THEN IsRef(heap, w) /\ Flattened(heap, Addr(heap, w), Addr(heap, v))
          ELSE w = v

\* C12: asMap of an ExactKeyMap with any depth of nesting returns a native
\* Map at the root and at every nested level, with the keys of the source at
\* each level and every value that is no container unchanged.
C12_ExportFlattening ==
  last.op = "asMap" =>
    /\ last.err = ""
    /\ IsRef(m.heap, last.ret)
    /\ Flattened(m.heap, Returned, Receiver)

C12_Witness ==
  /\ last.op = "asMap"
  /\ \E k1, k2 \in Keys :
       LET l1 == Map_get(m.heap[Returned], k1)
       IN /\ IsRef(m.heap, l1)
          /\ m.heap[Addr(m.heap, l1)].t = "Map"
          /\ Map_get(m.heap[Addr(m.heap, l1)], k2) = Prim("a")
          /\ Map_size(m.heap[Returned]) = 2

\* C13: every asMap call returns a newly allocated Map, which is neither the
\* source nor any object that existed before the call (an earlier result
\* included), and leaves every object that existed before the call, the
\* source and its nested containers among them, as it was.
C13_ExportFresh ==
  [][last'.op = "asMap"
       => /\ IsRef(m'.heap, last'.ret)
          /\ ~IsRef(m.heap, last'.ret)
          /\ m'.heap[Addr(m'.heap, last'.ret)].t = "Map"
          /\ SubSeq(m'.heap, 1, Len(m.heap)) = m.heap]_vars

C13_Witness ==
  /\ last.op = "asMap"
  /\ Map_size(m.heap[Receiver]) > 0
  /\ \E earlier \in 1..Len(m.heap) :
       /\ earlier # Returned
       /\ earlier # Receiver
       /\ Flattened(m.heap, earlier, Receiver)
       /\ Flattened(m.heap, Returned, Receiver)

\* The keys of a map object in iteration order.
KeySeq(obj) == [i \in 1..Len(obj.e) |-> obj.e[i].e[1]]

\* The keys of an entry sequence, each at its first occurrence.
RECURSIVE FirstKeys(_)
FirstKeys(entries) ==
  IF entries = <<>>
  THEN <<>>
  ELSE LET init == FirstKeys(SubSeq(entries, 1, Len(entries) - 1))
           k == entries[Len(entries)].e[1]
       IN IF \E i \in 1..Len(init) : init[i] = k THEN init ELSE Append(init, k)

\* Object id and its nested containers iterate in the input order of entries.
RECURSIVE InputOrder(_, _, _)
InputOrder(heap, id, entries) ==
  /\ KeySeq(heap[id]) = FirstKeys(entries)
  /\ \A i \in 1..Len(entries) :
       (LastOfKey(entries, i) /\ isEntries(entries[i].e[2])) =>
         LET g == Map_get(heap[id], entries[i].e[1])
         IN IsRef(heap, g) /\ InputOrder(heap, Addr(heap, g), entries[i].e[2].e)

\* Object res and its nested maps iterate in the order of src and its
\* nested containers.
RECURSIVE SameOrder(_, _, _)
SameOrder(heap, res, src) ==
  /\ KeySeq(heap[res]) = KeySeq(heap[src])
  /\ \A i \in 1..Len(heap[src].e) :
       LET v == heap[src].e[i].e[2]
       IN (IsRef(heap, v) /\ heap[Addr(heap, v)].t = "ExactKeyMap") =>
            /\ i <= Len(heap[res].e)
            /\ IsRef(heap, heap[res].e[i].e[2])
            /\ SameOrder(heap, Addr(heap, heap[res].e[i].e[2]), Addr(heap, v))

Without(seq, k) == SelectSeq(seq, LAMBDA x : x # k)

\* C14: an ExactKeyMap iterates in input order after construction; set of a
\* new key appends it, set of a stored key leaves the order as it is, delete
\* removes the key and keeps the order of the others (so a key set again
\* after its delete comes last); asMap returns maps that iterate, at every
\* level, in the order of the source.
C14_Order ==
  /\ last.op = "new ExactKeyMap" => InputOrder(m.heap, Returned, last.val.e)
  /\ [][LET id == Addr(m.heap, last'.path[1])
            before == KeySeq(m.heap[id])
            after == KeySeq(m'.heap[id])
        IN /\ (last'.op = "set" /\ m.heap[id].t = "ExactKeyMap") =>
                after = IF Map_has(m.heap[id], last'.key)
                        THEN before
                        ELSE Append(before, last'.key)
           /\ (last'.op = "delete" /\ m.heap[id].t = "ExactKeyMap") =>
                after = Without(before, last'.key)
           /\ last'.op = "asMap" =>
                /\ after = before
                /\ SameOrder(m'.heap, Addr(m'.heap, last'.ret), id)]_vars

C14_Witness ==
  /\ last.op = "set"
  /\ m.heap[Receiver].t = "ExactKeyMap"
  /\ m.calls = 2
  /\ KeySeq(m.heap[Receiver]) = <<Prim("b"), Prim("a")>>
  /\ last.key = Prim("b")
  /\ last.val = Prim("b")

\* C15 as stated: every construction entry point, called with no arguments,
\* returns an empty container without throwing, and a set on a mutable one
\* then stores the value.
C15_ZeroArguments ==
  /\ (last.form = "none" /\ last.op # "LooseExactKeyMap.fromEntries") =>
       /\ last.err = ""
       /\ IsMap(m)
       /\ Map_size(m) = 0
  /\ (last.op = "set" /\ last.path = <<>> /\ m.t = "ExactKeyMap") =>
       /\ last.err = ""
       /\ get(m, last.key) = last.val

\* C16 as stated: for pairs p1..pn with keys of any kind, arrays included,
\* toEntriesArray(p1, ..., pn) returns the pair sequence toEntriesArray([p1,
\* ..., pn]) returns, and fromEntries(p1, ..., pn) builds the container
\* fromEntries([p1, ..., pn]) builds.
C16_CallingStyles ==
  /\ (last.op = "toEntriesArray" /\ last.form = "variadic") =>
       last.ret = Arr(toEntriesArray(last.val, <<>>))
  /\ (last.op = "ExactKeyMap.fromEntries" /\ last.form = "variadic") =>
       LET list == ExactKeyMap_fromEntries(last.val, <<>>)
       IN /\ last.err = list.err
          /\ m = IF list.err = "" THEN list.obj ELSE undefined

\* C17: on a map from LooseExactKeyMap.fromEntries or .withTypes, set of any
\* key, declared or not, stores the value (overwriting an earlier one) so
\* that get returns it; delete of a stored key returns true and removes it,
\* delete of a key that is not stored returns false and changes nothing;
\* get returns the stored value.  This is the behaviour of ExactKeyMap.
C17_LooseKeys ==
  /\ last.op \in {"LooseExactKeyMap.fromEntries", "LooseExactKeyMap.withTypes"} =>
       last.err = "" /\ m.t = "ExactKeyMap"
  /\ [][last'.path = <<>> =>
          LET k == last'.key
          IN /\ last'.op = "set" =>
                  /\ last'.err = ""
                  /\ get(m', k) = last'.val
                  /\ Map_size(m') = Map_size(m) + IF Map_has(m, k) THEN 0 ELSE 1
                  /\ m' = ExactKeyMap_set(m, k, last'.val).obj
             /\ last'.op = "delete" =>
                  /\ last'.err = ""
                  /\ IF Map_has(m, k)
                     THEN /\ last'.ret = Bool(TRUE)
                          /\ ~Map_has(m', k)
                          /\ Map_size(m') = Map_size(m) - 1
                     ELSE /\ last'.ret = Bool(FALSE)
                          /\ m' = m
             /\ last'.op = "get" =>
                  /\ last'.ret = IF Map_has(m, k) THEN Map_get(m, k) ELSE undefined
                  /\ m' = m]_vars

C17_Witness ==
  /\ last.op = "delete"
  /\ last.path = <<>>
  /\ last.key \notin DeclaredKeys
  /\ last.ret = Bool(TRUE)
  /\ Map_has(m, Prim("a"))

\* ============================================================ type level
\* The types ValueOfKey, ExtractExactEntry and NormalizeValue as operators on
\* types.  A key type is the set of the members of a union of 'a', 'b' and
\* string (never is the empty set; a literal next to string is absorbed by
\* it).  A value type is a set of members too: a primitive type, a type of
\* entries (a tuple of pairs), or ExactKeyMap<entries>.  A pair type
\* [Key, Val] is [key |-> Key, val |-> Val]; Entries is a tuple of pair
\* types.  In SpecTypes m is the Entries a container is declared with.

\* Number of pair types of an Entries tuple.
MaxEntries == 3

KeyAtoms == {"a", "b", "string"}

\* A member of a union is assignable to another: equal, or a string literal
\* to string.
AtomExtends(x, y) == x = y \/ (y = "string" /\ x \in {"a", "b"})

\* S extends T for key types: every member of S is assignable to one of T.
Extends(S, T) == \A x \in S : \E y \in T : AtomExtends(x, y)

KeyTypes ==
  {S \in SUBSET KeyAtoms : \A x, y \in S : AtomExtends(x, y) => x = y}

TPrim(name) == [kind |-> "primitive", name |-> name, entries |-> <<>>]

TEntries(es) == [kind |-> "entries", name |-> "", entries |-> es]

TExactKeyMap(es) == [kind |-> "ExactKeyMap", name |-> "", entries |-> es]

TPair(Key, Val) == [key |-> Key, val |-> Val]

\* Entries[number]: the union of the pair types of the tuple.
Members(Entries) == {Entries[i] : i \in 1..Len(Entries)}

\* NormalizeValue<V> = V extends Es<Entry>
\*   ? ExactKeyMap<{[I in keyof V]: [Key, NormalizeValue<Val>]}> : V
\* distributed over the members of V.
RECURSIVE NormalizeValue(_)
NormalizeValue(V) ==
  {IF v.kind = "entries"
   THEN TExactKeyMap([i \in 1..Len(v.entries) |->
                        TPair(v.entries[i].key, NormalizeValue(v.entries[i].val))])
   ELSE v : v \in V}

\* Variant: only the pairs whose key type is K itself are extracted.
ExtractExactEntry_ByEquality(Entries, K) == {T \in Members(Entries) : T.key = K}

\* Extract<Entries[number], readonly [K, unknown]>: the members T of
\* Entries[number] with T extends readonly [K, unknown].
ExtractExactEntry(Entries, K) == {T \in Members(Entries) : Extends(T.key, K)}

\* Variant: the catch-all pairs are scanned whether or not a pair matched.
ValueOfKey_NoPrecedence(Entries, K) ==
  UNION {UNION {IF Extends({k}, T.key) THEN NormalizeValue(T.val) ELSE {} : k \in K} :
         T \in Members(Entries)}

\* Variant: a key no pair was extracted for resolves to never.
ValueOfKey_ExactOnly(Entries, K) ==
  UNION {NormalizeValue(T.val) : T \in ExtractExactEntry(Entries, K)}

ValueOfKey(Entries, K) ==
  LET Exact == ExtractExactEntry(Entries, K)
  IN IF Exact = {}
     THEN UNION {UNION {IF Extends({k}, T.key) THEN NormalizeValue(T.val) ELSE {} :
                        k \in K} :
                 T \in Members(Entries)}
     ELSE UNION {NormalizeValue(T.val) : T \in Exact}

\* The value types of declared pairs: two primitives and one type of entries.
ValueTypes ==
  {{TPrim("number")}, {TPrim("string")},
   {TEntries(<<TPair({"a"}, {TPrim("number")})>>)}}

PairTypes == {TPair(Key, Val) : Key \in KeyTypes \ {{}}, Val \in ValueTypes}

EntriesTypes == UNION {[1..n -> PairTypes] : n \in 1..MaxEntries}

TypesInit ==
  \E Entries \in EntriesTypes :
    /\ m = Entries
    /\ last = Call("Entries", "", <<>>, {}, {}, Res({}, {}, ""))

\* type R = ValueOfKey<Entries, K>
ResolveValueOfKey(K) ==
  /\ m' = m
  /\ last' = Call("ValueOfKey", "", <<>>, K, {}, Res({}, ValueOfKey(m, K), ""))

\* type R = ExtractExactEntry<Entries, K>
ResolveExtractExactEntry(K) ==
  /\ m' = m
  /\ last' = Call("ExtractExactEntry", "", <<>>, K, {},
                  Res({}, ExtractExactEntry(m, K), ""))

TypesNext ==
  \/ \E K \in KeyTypes : ResolveValueOfKey(K)
  \/ \E K \in KeyTypes : ResolveExtractExactEntry(K)

SpecTypes == TypesInit /\ [][TypesNext]_vars

\* The key type of pair T is a strict supertype / a strict subtype of K.
Above(T, K) == T.key # K /\ Extends(K, T.key)

Below(T, K) == T.key # K /\ Extends(T.key, K)

\* The union of the normalized value types of a set of pair types.
ValuesOf(Ts) == UNION {NormalizeValue(T.val) : T \in Ts}

\* The key is covered by catch-all pairs only: no pair has the key type or a
\* subtype of it, some pair has a strict supertype.
CatchAllOnly(Entries, K) ==
  /\ K # {}
  /\ \A T \in Members(Entries) : ~Extends(T.key, K)
  /\ \E T \in Members(Entries) : Above(T, K)

C19_Distributes ==
  (\A k \in last.key : ValueOfKey(m, {k}) # {}) =>
    /\ last.op = "ValueOfKey" =>
         last.ret = UNION {ValueOfKey(m, {k}) : k \in last.key}
    /\ last.op = "ExtractExactEntry" =>
         last.ret = UNION {ExtractExactEntry(m, {k}) : k \in last.key}

TLit(name) == [kind |-> "literal", name |-> name, entries |-> <<>>]

\* The base type a literal is assignable to.
BaseOf(name) == IF name = "1" THEN "number" ELSE "string"

\* Variant: literals stay as they are.
Widen_KeepLiterals(T) == T

\* Widen<T> over the members of T: T extends string ? string
\*   : T extends number ? number : ... : T
Widen(T) == {IF v.kind = "literal" THEN TPrim(BaseOf(v.name)) ELSE v : v \in T}

\* NormalizeValue<V> of the widening variant: as NormalizeValue, with
\* Widen<V> in place of V for what is not a collection of pairs.
RECURSIVE NormalizeValue_Widen(_)
NormalizeValue_Widen(V) ==
  UNION {IF v.kind = "entries"
         THEN {TExactKeyMap([i \in 1..Len(v.entries) |->
                 TPair(v.entries[i].key, NormalizeValue_Widen(v.entries[i].val))])}
         ELSE Widen({v}) : v \in V}

\* TransformNestedEntries<E>: each pair [K, V] becomes
\* [K, ExactKeyMap<TransformNestedEntries<V>>] for V a collection of pairs
\* and [K, Widen<V>] otherwise; TransformNestedConstEntries<E> keeps V.
RECURSIVE TransformNestedEntries(_)
TransformNestedEntries(E) ==
  [i \in 1..Len(E) |->
     TPair(E[i].key,
           UNION {IF v.kind = "entries"
                  THEN {TExactKeyMap(TransformNestedEntries(v.entries))}
                  ELSE Widen({v}) : v \in E[i].val})]

RECURSIVE TransformNestedConstEntries(_)
TransformNestedConstEntries(E) ==
  [i \in 1..Len(E) |->
     TPair(E[i].key,
           UNION {IF v.kind = "entries"
                  THEN {TExactKeyMap(TransformNestedConstEntries(v.entries))}
                  ELSE {v} : v \in E[i].val})]

\* get<K>(key: K): ValueOfKey<Entries, K> | undefined
TypeOfGet(Entries, K) == ValueOfKey(Entries, K) \cup {TPrim("undefined")}

\* The entries whose as-const type is E: a literal type has one value.
RECURSIVE ValueOfType(_)
ValueOfType(E) ==
  Arr([i \in 1..Len(E) |->
         LET k == CHOOSE x \in E[i].key : TRUE
             v == CHOOSE x \in E[i].val : TRUE
         IN Arr(<<Prim(k),
                  IF v.kind = "entries" THEN ValueOfType(v.entries)
                  ELSE Prim(v.name)>>)])

Policies == {"widen", "preserve"}

LiteralKeyTypes == {{"a"}, {"b"}}

LiteralValueTypes ==
  {{TLit("a")}, {TLit("1")},
   {TEntries(<<TPair({"a"}, {TEntries(<<TPair({"b"}, {TLit("1")})>>)})>>)}}

LiteralPairTypes ==
  {TPair(Key, Val) : Key \in LiteralKeyTypes, Val \in LiteralValueTypes}

LiteralEntriesTypes == UNION {[1..n -> LiteralPairTypes] : n \in 1..MaxEntries}

PolicyInit ==
  \E E \in LiteralEntriesTypes :
    /\ m = E
    /\ last = Call("Entries", "", <<>>, {}, {}, Res({}, {}, ""))

\* type R = ReturnType<typeof map.get<K>> for
\* map = ExactKeyMap.fromEntries(entries) or ConstExactKeyMap.fromEntries(entries)
ResolveGet(policy, K) ==
  /\ m' = m
  /\ last' = Call("typeof get", policy, <<>>, K, {},
                  Res({}, IF policy = "widen"
                          THEN TypeOfGet(TransformNestedEntries(m), K)
                          ELSE TypeOfGet(TransformNestedConstEntries(m), K), ""))

\* type R = NormalizeValue<Entries[i][1]> in either variant
ResolveNormalizeValue(policy, i) ==
  /\ i \in 1..Len(m)
  /\ m' = m
  /\ last' = Call("NormalizeValue", policy, <<>>, m[i].key, m[i].val,
                  Res({}, IF policy = "widen"
                          THEN NormalizeValue_Widen(m[i].val)
                          ELSE NormalizeValue(m[i].val), ""))

\* ExactKeyMap.fromEntries(entries).get(key) or
\* ConstExactKeyMap.fromEntries(entries).get(key) at run time
RunGet(policy, K) ==
  LET built == IF policy = "widen"
               THEN ExactKeyMap_fromEntries(ValueOfType(m), <<>>)
               ELSE ConstExactKeyMap_fromEntries(ValueOfType(m), <<>>)
      key == Prim(CHOOSE x \in K : TRUE)
  IN /\ m' = m
     /\ last' = Call("get", policy, <<>>, K, {},
                     Res({}, IF built.err = "" THEN get(built.obj, key)
                             ELSE undefined, built.err))

PolicyNext ==
  \/ \E policy \in Policies, K \in LiteralKeyTypes : ResolveGet(policy, K)
  \/ \E policy \in Policies, i \in 1..MaxEntries : ResolveNormalizeValue(policy, i)
  \/ \E policy \in Policies, K \in LiteralKeyTypes : RunGet(policy, K)

SpecPolicy == PolicyInit /\ [][PolicyNext]_vars

\* r is the type kept for the declared value type v under the policy: a
\* container type with the same keys at the same positions for a nested
\* collection of pairs, the base type (widen) or the literal itself
\* (preserve) for a literal.
RECURSIVE Kept(_, _, _)
Kept(policy, r, v) ==
  IF v.kind = "entries"
  THEN /\ r.kind = "ExactKeyMap"
       /\ Len(r.entries) = Len(v.entries)
       /\ \A i \in 1..Len(v.entries) :
            /\ r.entries[i].key = v.entries[i].key
            /\ \A x \in r.entries[i].val : \E y \in v.entries[i].val : Kept(policy, x, y)
            /\ \A y \in v.entries[i].val : \E x \in r.entries[i].val : Kept(policy, x, y)
  ELSE IF policy = "widen"
       THEN r = TPrim(BaseOf(v.name))
       ELSE r = v

\* The declared value types of the pairs of m with key type K.
DeclaredFor(K) == UNION {m[i].val : i \in {j \in 1..Len(m) : m[j].key = K}}

KeptAll(policy, R, V) ==
  /\ \A r \in R : \E v \in V : Kept(policy, r, v)
  /\ \A v \in V : \E r \in R : Kept(policy, r, v)

LastDeclared(K) ==
  LET i == CHOOSE j \in 1..Len(m) :
             m[j].key = K /\ \A l \in (j + 1)..Len(m) : m[l].key # K
  IN CHOOSE x \in m[i].val : TRUE

MaxElems == 3

ShapeElems ==
  {undefined, Prim("a"), Arr(<<>>), Arr(<<Prim("a")>>),
   Arr(<<Prim("a"), Prim("b")>>), Arr(<<Prim("a"), Prim("b"), Prim("a")>>)}

ShapeInputs ==
  {undefined, Prim("a"), NewMap("Map")}
    \cup {Arr(s) : s \in UNION {[1..n -> ShapeElems] : n \in 0..MaxElems}}

ShapeInit ==
  \E value \in ShapeInputs :
    /\ m = value
    /\ last = Call("", "", <<>>, undefined, value, Res(undefined, undefined, ""))

Applied(op, result) ==
  /\ m' = m
  /\ last' = Call(op, "", <<>>, undefined, m, Res(undefined, Bool(result), ""))

ShapeNext ==
  \/ Applied("isTuple", isTuple(m))
  \/ Applied("isEntry", isEntry(m))
  \/ Applied("isArrayOfTuples", isArrayOfTuples(m))
  \/ Applied("isEntries", isEntries(m))

SpecShape == ShapeInit /\ [][ShapeNext]_vars

IsArray(v) == v.t = "Array"

\* C23: isTuple and isEntry are true exactly for an array of two elements,
\* whatever the elements; isArrayOfTuples and isEntries are true exactly for
\* an array none of whose elements is anything but an array of two elements,
\* the empty array included.
C23_ShapePredicates ==
  /\ last.op \in {"isTuple", "isEntry"} =>
       (last.ret = Bool(TRUE) <=> IsArray(last.val) /\ Len(last.val.e) = 2)
  /\ last.op \in {"isArrayOfTuples", "isEntries"} =>
       /\ last.ret = Bool(TRUE) <=>
            /\ IsArray(last.val)
            /\ ~\E i \in 1..Len(last.val.e) :
                  ~IsArray(last.val.e[i]) \/ Len(last.val.e[i].e) # 2
       /\ last.val = Arr(<<>>) => last.ret = Bool(TRUE)

C23_Witness ==
  /\ last.op = "isArrayOfTuples"
  /\ last.val = Arr(<<Arr(<<Prim("a"), Prim("b")>>),
                      Arr(<<Prim("a"), Prim("b"), Prim("a")>>)>>)
  /\ last.ret = Bool(FALSE)

\* ------------------------------------------------- objectToExactKeyMap
\* m is a plain object and, after the call, the container built from it.
MaxProps == 3

\* A plain object, as the list of its own enumerable properties in the
\* order of Object.entries.
Obj(props) == [t |-> "Object", p |-> "", e |-> props, constructing |-> FALSE]

Fn == [t |-> "function", p |-> "fn", e |-> <<>>, constructing |-> FALSE]

isPlainObject(input) == input.t = "Object"

RECURSIVE objectToExactKeyMap(_)
objectToExactKeyMap(obj) ==
  LET entries ==
        [i \in 1..Len(obj.e) |->
           LET key == obj.e[i].e[1]
               value == obj.e[i].e[2]
           IN IF isPlainObject(value)
              THEN Arr(<<key, objectToExactKeyMap(value).obj>>)
              ELSE Arr(<<key, value>>)]
  IN ExactKeyMap_fromEntries(Arr(entries), <<>>)

ObjectLeaves ==
  {Prim("a"), Fn, Arr(<<>>), Arr(<<Prim("a"), Prim("b")>>),
   Arr(<<Arr(<<Prim("a"), Prim("b")>>)>>)}

\* The property lists of n properties in all, nested ones counted, no key
\* twice in one object.
RECURSIVE PropsOfSize(_), PropValuesOfSize(_)
PropsOfSize(n) ==
  IF n = 0
  THEN {<<>>}
  ELSE UNION {{props \in {<<Arr(<<k, v>>)>> \o rest :
                             k \in Keys, v \in PropValuesOfSize(j),
                             rest \in PropsOfSize(n - 1 - j)} :
                 \A i \in 2..Len(props) : props[i].e[1] # props[1].e[1]} :
              j \in 0..(n - 1)}

PropValuesOfSize(j) ==
  IF j = 0 THEN ObjectLeaves \cup {Obj(<<>>)}
  ELSE {Obj(props) : props \in PropsOfSize(j)}

PlainObjects == {Obj(props) : props \in UNION {PropsOfSize(n) : n \in 0..MaxProps}}

ObjectInit ==
  \E obj \in PlainObjects :
    /\ m = obj
    /\ last = Call("", "", <<>>, undefined, obj, Res(undefined, undefined, ""))

\* m = objectToExactKeyMap(m)
ObjectToExactKeyMap ==
  LET r == objectToExactKeyMap(m)
  IN /\ isPlainObject(m)
     /\ m' = r.obj
     /\ last' = Call("objectToExactKeyMap", "", <<>>, undefined, m,
                     Res(r.obj, r.obj, r.err))

ObjectNext ==
  \/ ObjectToExactKeyMap
  \/ \E key \in Keys : Get(key)

SpecObject == ObjectInit /\ [][ObjectNext]_vars

\* res is the container of src: a key for each property in the order of
\* the properties, a container of the same kind for a plain object and the
\* value itself for anything else.
RECURSIVE ConvertedObject(_, _)
ConvertedObject(res, src) ==
  /\ res.t = "ExactKeyMap"
  /\ Len(res.e) = Len(src.e)
  /\ \A i \in 1..Len(src.e) :
       /\ res.e[i].e[1] = src.e[i].e[1]
       /\ IF src.e[i].e[2].t = "Object"
          THEN ConvertedObject(res.e[i].e[2], src.e[i].e[2])
          ELSE res.e[i].e[2] = src.e[i].e[2]

\* C24: objectToExactKeyMap(obj) is an ExactKeyMap with one entry per
\* property of obj, a nested ExactKeyMap for every value that is a plain
\* object, and every other value, arrays and functions among them, as it is.
C24_ObjectConversion ==
  last.op = "objectToExactKeyMap" =>
    /\ last.err = ""
    /\ ConvertedObject(last.ret, last.val)

\* ------------------------------------------------------- duplicate keys
\* The number of pairs of entries, at any depth, whose value is a collection
\* of pairs: the containers a construction from entries builds below the
\* one it returns.
RECURSIVE NestedCount(_)
NestedCount(entries) ==
  IF entries = <<>>
  THEN 0
  ELSE LET v == entries[Len(entries)].e[2]
       IN NestedCount(SubSeq(entries, 1, Len(entries) - 1))
            + (IF isEntries(v) THEN 1 + NestedCount(v.e) ELSE 0)

C26_VacuousNesting ==
  (last.op = "ExactKeyMap.fromEntries" /\ last.err = "") =>
    \A i \in 1..Len(last.val.e) :
      LastOfKey(last.val.e, i) =>
        LET g == get(m, last.val.e[i].e[1])
            v == last.val.e[i].e[2]
        IN /\ v = Arr(<<>>) => g.t = "ExactKeyMap" /\ Map_size(g) = 0
           /\ (/\ v.t = "Array"
               /\ \E j \in 1..Len(v.e) : ~(v.e[j].t = "Array" /\ Len(v.e[j].e) = 2))
                => g = v

C26_Witness ==
  /\ last.op = "ExactKeyMap.fromEntries"
  /\ last.val = Arr(<<Arr(<<Prim("a"), Arr(<<>>)>>),
                      Arr(<<Prim("b"), Arr(<<Prim("a"), Prim("b")>>)>>)>>)
  /\ get(m, Prim("a")) = NewMap("ExactKeyMap")
  /\ get(m, Prim("b")) = Arr(<<Prim("a"), Prim("b")>>)

\* ------------------------------------------------ frame of set and delete
\* Every key but k has the same binding in the two containers.
SameButFor(before, after, k) ==
  \A k2 \in Keys \ {k} :
    /\ Map_has(after, k2) = Map_has(before, k2)
    /\ get(after, k2) = get(before, k2)

\* C27: on a mutable ExactKeyMap, set(k, v) binds k to v, the size growing
\* by one exactly when k was absent, and delete(k) unbinds k, the size
\* shrinking by one exactly when k was present; has and get of every other
\* key are as before, and every other container, the nested ones under
\* other keys among them, is as it was.
C27_Frame ==
  [][LET id == Addr(m.heap, last'.path[1])
         before == m.heap[id]
         after == m'.heap[id]
         k == last'.key
     IN (/\ last'.op \in {"set", "delete"}
         /\ before.t = "ExactKeyMap"
         /\ last'.err = "")
        => /\ SameButFor(before, after, k)
           /\ last'.op = "set" =>
                /\ get(after, k) = last'.val
                /\ Map_size(after) =
                     Map_size(before) + (IF Map_has(before, k) THEN 0 ELSE 1)
           /\ last'.op = "delete" =>
                /\ ~Map_has(after, k)
                /\ Map_size(after) =
                     Map_size(before) - (IF Map_has(before, k) THEN 1 ELSE 0)
           /\ Len(m'.heap) = Len(m.heap)
           /\ \A j \in 1..Len(m.heap) : j # id => m'.heap[j] = m.heap[j]]_vars

C27_Witness ==
  /\ last.op = "set"
  /\ last.err = ""
  /\ Len(m.heap) = 2
  /\ Receiver = 1
  /\ last.key = Prim("b")
  /\ Map_size(m.heap[1]) = 2
  /\ Map_size(m.heap[2]) = 1

\* ------------------------------------- two containers from the same arrays
\* m.heap holds the objects, m.first and m.second the two containers a
\* client built one after the other from the same arrays m.entries.  The
\* client then works on m.worked, one of the two, and on the containers
\* nested in it; m.kept is what the other one held when it was built.
\* The addresses of the containers reachable from the object at address id.
RECURSIVE Reach(_, _)
Reach(heap, id) ==
  {id} \cup UNION {Reach(heap, Addr(heap, heap[id].e[i].e[2])) :
                     i \in {j \in 1..Len(heap[id].e) : IsRef(heap, heap[id].e[j].e[2])}}

TwinInit ==
  \E entries \in Inputs, side \in {"first", "second"} :
    LET r1 == Es_ExactKeyMap_constructor(<<>>, Arr(entries))
        r2 == Es_ExactKeyMap_constructor(r1.heap, Arr(entries))
    IN /\ m = [heap |-> r2.heap, calls |-> 0, entries |-> Arr(entries),
               first |-> r1.ret, second |-> r2.ret,
               worked |-> IF side = "first" THEN r1.ret ELSE r2.ret,
               kept |-> Unfold(r2.heap, IF side = "first" THEN r2.ret ELSE r1.ret)]
       /\ last = Call("new ExactKeyMap", "list", <<>>, undefined, Arr(entries),
                      Res(undefined, r2.ret, r2.err))

\* The object at address id is m.worked or is nested in it.
Worked(id) == id \in Reach(m.heap, Addr(m.heap, m.worked))

\* o.set(key, value) for the object o at address id
TwinSet(id, key, value) ==
  LET r == set(m.heap[id], key, value)
  IN /\ m.calls < MaxCalls
     /\ Worked(id)
     /\ m' = [m EXCEPT !.heap[id] = r.obj, !.calls = @ + 1]
     /\ last' = Call("set", "", <<Ref(id)>>, key, value,
                     Res(r.obj, IF r.err = "" THEN Ref(id) ELSE undefined, r.err))

\* o.delete(key)
TwinDelete(id, key) ==
  LET r == delete(m.heap[id], key)
  IN /\ m.calls < MaxCalls
     /\ Worked(id)
     /\ m' = [m EXCEPT !.heap[id] = r.obj, !.calls = @ + 1]
     /\ last' = Call("delete", "", <<Ref(id)>>, key, undefined, r)

TwinNext ==
  \/ \E id \in 1..Len(m.heap), key \in Keys, value \in HeapSetValues :
       TwinSet(id, key, value)
  \/ \E id \in 1..Len(m.heap), key \in Keys : TwinDelete(id, key)

SpecTwin == TwinInit /\ [][TwinNext]_vars

\* C28: two ExactKeyMaps constructed from the same arrays hold equal
\* contents and share no container at any depth, the arrays are as they
\* were, and whatever set and delete calls are made on one of the two and
\* on its nested containers, the other and its nested containers hold what
\* they held.
C28_Isolation ==
  /\ Reach(m.heap, Addr(m.heap, m.first)) \cap Reach(m.heap, Addr(m.heap, m.second)) = {}
  /\ Unfold(m.heap, IF m.worked = m.first THEN m.second ELSE m.first) = m.kept
  /\ last.op = "new ExactKeyMap" =>
       /\ m.entries = last.val
       /\ Unfold(m.heap, m.first) = Unfold(m.heap, m.second)

C28_Witness ==
  /\ last.op = "set"
  /\ last.err = ""
  /\ m.calls = 2
  /\ Len(m.heap) = 4
  /\ m.worked = m.first
  /\ Addr(m.heap, last.path[1]) \in Reach(m.heap, Addr(m.heap, m.first)) \ {Addr(m.heap, m.first)}
  /\ Map_size(m.heap[Addr(m.heap, last.path[1])]) = 2
  /\ Map_size(m.heap[Addr(m.heap, last.path[1]) + 2]) = 1

\* --------------------------------------------- a container and its export
\* m.source is a container built from arrays, m.exported the Map its asMap
\* returned; the client then works on m.worked, one of the two, and on what
\* is nested in it; m.kept is what the other one held after the export.
ExportInit ==
  \E entries \in Inputs, side \in {"source", "exported"} :
    LET r == Es_ExactKeyMap_constructor(<<>>, Arr(entries))
        x == asMap(r.heap, Addr(r.heap, r.ret))
    IN /\ m = [heap |-> x.heap, calls |-> 0, source |-> r.ret, exported |-> x.ret,
               worked |-> IF side = "source" THEN r.ret ELSE x.ret,
               kept |-> Unfold(x.heap, IF side = "source" THEN x.ret ELSE r.ret)]
       /\ last = Call("asMap", "", <<r.ret>>, undefined, Arr(entries),
                      Res(undefined, x.ret, ""))

\* o.clear() for the object o at address id
ExportClear(id) ==
  LET r == clear(m.heap[id])
  IN /\ m.calls < MaxCalls
     /\ Worked(id)
     /\ m' = [m EXCEPT !.heap[id] = r.obj, !.calls = @ + 1]
     /\ last' = Call("clear", "", <<Ref(id)>>, undefined, undefined, r)

ExportNext ==
  \/ \E id \in 1..Len(m.heap), key \in Keys, value \in HeapSetValues :
       TwinSet(id, key, value)
  \/ \E id \in 1..Len(m.heap), key \in Keys : TwinDelete(id, key)
  \/ \E id \in 1..Len(m.heap) : ExportClear(id)

SpecExport == ExportInit /\ [][ExportNext]_vars

SourceObjects == Reach(m.heap, Addr(m.heap, m.source))

ExportedObjects == Reach(m.heap, Addr(m.heap, m.exported))

\* C29: the Map returned by asMap and the Maps nested in it are objects the
\* source does not hold at any level; whatever set, delete and clear calls
\* are made on them, the source and its nested containers hold what they
\* held, and whatever calls are made on the source and on its nested
\* containers, the exported Maps hold what they held.
C29_ExportIndependence ==
  /\ SourceObjects \cap ExportedObjects = {}
  /\ \A j \in ExportedObjects : m.heap[j].t = "Map"
  /\ Unfold(m.heap, IF m.worked = m.source THEN m.exported ELSE m.source) = m.kept

C29_Witness ==
  /\ last.op = "set"
  /\ last.err = ""
  /\ m.calls = 2
  /\ m.worked = m.exported
  /\ Addr(m.heap, last.path[1]) \in ExportedObjects \ {Addr(m.heap, m.exported)}
  /\ Cardinality(SourceObjects) = 2
  /\ \E j \in SourceObjects :
       Map_size(m.heap[j]) = 1 /\ Map_size(m.heap[Addr(m.heap, last.path[1])]) = 2

\* ------------------------------------------------- asMap on the call stack
\* asMap calls itself for every value that has an asMap; the frames of the
\* calls in progress are counted, and a call beyond the depth of the stack
\* throws.
StackDepth == 8

RangeErr == "RangeError: Maximum call stack size exceeded"

RECURSIVE asMap_frame(_, _, _), asMap_forEach_frame(_, _, _, _)
asMap_frame(heap, id, frames) ==
  LET map == Len(heap) + 1
  IN IF frames >= StackDepth
     THEN [heap |-> heap, ret |-> undefined, err |-> RangeErr]
     ELSE LET r == asMap_forEach_frame(Append(heap, NewMap("Map")), map,
                                       heap[id].e, frames + 1)
          IN [heap |-> r.heap, ret |-> IF r.err = "" THEN Ref(map) ELSE undefined,
              err |-> r.err]

asMap_forEach_frame(heap, map, items, frames) ==
  IF items = <<>>
  THEN [heap |-> heap, err |-> ""]
  ELSE LET key == Head(items).e[1]
           value == Head(items).e[2]
           sub == IF HasAsMap(heap, value)
                  THEN asMap_frame(heap, Addr(heap, value), frames)
                  ELSE [heap |-> heap, ret |-> value, err |-> ""]
       IN IF sub.err # ""
          THEN [heap |-> sub.heap, err |-> sub.err]
          ELSE asMap_forEach_frame(
                 [sub.heap EXCEPT ![map] = Map_set(@, key, sub.ret).obj],
                 map, Tail(items), frames)

\* The values handed to set: a primitive, or a container that exists.
ContainerValues(heap) ==
  {Prim("b")} \cup {Ref(i) : i \in {j \in 1..Len(heap) : heap[j].t = "ExactKeyMap"}}

\* o.asMap(); what a call that throws has allocated is not reachable.
StackAsMap(id) ==
  LET r == asMap_frame(m.heap, id, 0)
  IN /\ m.calls < MaxCalls
     /\ m.heap[id].t = "ExactKeyMap"
     /\ m' = [heap |-> IF r.err = "" THEN r.heap ELSE m.heap, calls |-> m.calls + 1]
     /\ last' = Call("asMap", "", <<Ref(id)>>, undefined, undefined,
                     Res(undefined, r.ret, r.err))

StackNext ==
  \/ \E id \in 1..Len(m.heap), key \in Keys, value \in ContainerValues(m.heap) :
       HeapSet(id, key, value)
  \/ \E id \in 1..Len(m.heap), key \in Keys : HeapDelete(id, key)
  \/ \E id \in 1..Len(m.heap) : StackAsMap(id)

SpecStack == HeapInit /\ [][StackNext]_vars

\* C30: asMap returns a Map, and does not throw, on every container that
\* construction and then set and delete calls on it and on its nested
\* containers lead to, the values of set being primitives or ExactKeyMap
\* instances.
C30_ExportTerminates ==
  last.op = "asMap" =>
    /\ last.err = ""
    /\ IsRef(m.heap, last.ret)
    /\ m.heap[Addr(m.heap, last.ret)].t = "Map"

====
